---- MODULE Spec2Model ----
(***************************************************************************)
(* A model of github-backup.py: the paginated, rate-limit aware fetcher    *)
(* get_json, the name validator check_name, the per-repository mirror and  *)
(* the orchestrating main.                                                 *)
(*                                                                         *)
(* Strings that the program inspects character by character (repository   *)
(* names, owner logins) are sequences of one-character strings.  The HTTP  *)
(* server, the clock and git are the environment: every response, header   *)
(* value and exit status is a nondeterministic choice from a small set.    *)
(***************************************************************************)
EXTENDS Integers, Sequences, FiniteSets, TLC

(***************************************************************************)
(* Bounds of the model.                                                    *)
(***************************************************************************)
\* longest name handed to check_name in SpecName
MaxLen == 3
\* HTTP requests one call of get_json may issue
MaxReq == 3
\* listing URLs 1..MaxPages; a next link always points to a later URL
MaxPages == 2
\* repository records the server lists in one run, over all pages
MaxRecords == 2

(***************************************************************************)
(* Characters and names.                                                   *)
(***************************************************************************)
\* \w of Python's re for str patterns: letters, digits, underscore
WordChars == {"a", "b", "_"}

\* the characters the names of the model are made of
Chars == WordChars \cup {".", "-", "/", "\\", " ", "\n", ";"}

\* the class [-\.\w] of the pattern
TailChars == WordChars \cup {"-", "."}

Names == UNION {[1..n -> Chars] : n \in 0..MaxLen}

\* re.match(r"^\w[-\.\w]*$", name): ^ anchors at 0, the starred class
\* backtracks, and $ matches at the very end or just before a newline that
\* is the last character.
ReMatch(name) ==
    /\ Len(name) >= 1
    /\ name[1] \in WordChars
    /\ \E p \in 1..Len(name) :
          /\ \A i \in 2..p : name[i] \in TailChars
          /\ \/ p = Len(name)
             \/ p = Len(name) - 1 /\ name[Len(name)] = "\n"

\* a variant that accepts every name
check_nameAll(name) == [raised |-> FALSE, value |-> name]

\* check_name: the value returned, or the ValueError raised
check_name(name) ==
    IF ~ReMatch(name)
    THEN [raised |-> TRUE, value |-> name]
    ELSE [raised |-> FALSE, value |-> name]

(***************************************************************************)
(* Program constants.                                                      *)
(***************************************************************************)
\* "+ 10  # Adding a buffer"
RateLimitBuffer == 10
\* time.sleep(5)
ServerErrorDelay == 5

(***************************************************************************)
(* The environment: configuration, URLs, responses, records.               *)
(***************************************************************************)
Alice == <<"a">>
Bob == <<"b">>

\* config.get("owners"): None when the key is absent, else the list; only
\* its truth value and membership are used, so the list is a set
NoOwners == [present |-> FALSE, list |-> {}]
OwnersConfigs ==
    {NoOwners, [present |-> TRUE, list |-> {}], [present |-> TRUE, list |-> {Alice}]}

\* os.path.expanduser(config["directory"]) and config["token"]
Root == <<<<"r">>>>
Token == "t"

\* "https://api.github.com/user" is URL 0, "https://api.github.com/user/repos"
\* is URL 1 and the later pages of the listing are 2..MaxPages
UserUrl == 0
ReposUrl == 1
NoLink == 0

CloneUrl(owner, name) ==
    [scheme |-> "https", netloc |-> <<"github.com">>, path |-> <<owner, name>>]

Repo(name, owner) ==
    [name |-> name, owner |-> [login |-> owner], clone_url |-> CloneUrl(owner, name)]

\* the records the server may list: valid ones of both owners, one with an
\* unsafe name, one with an unsafe owner login
Records ==
    { Repo(<<"a">>, Alice), Repo(<<"b">>, Bob),
      Repo(<<".", ".">>, Bob), Repo(<<"a">>, <<"-">>) }

PagesUpTo(n) == UNION {[1..k -> Records] : k \in 0..n}

\* the value of the X-RateLimit-Reset header: absent, not a number, or a
\* Unix timestamp around the current time t
ResetOffsets == {-11, -10, 5}
NoReset == [present |-> FALSE, numeric |-> FALSE, val |-> 0]
ResetHeaders(t) ==
    {NoReset, [present |-> TRUE, numeric |-> FALSE, val |-> 0]}
    \cup {[present |-> TRUE, numeric |-> TRUE, val |-> t + d] : d \in ResetOffsets}

Response(transport, status, remaining, reset, jsonOk, body, login, next) ==
    [transport |-> transport, status |-> status, remaining |-> remaining,
     reset |-> reset, jsonOk |-> jsonOk, body |-> body, login |-> login,
     next |-> next]

\* the rel="next" links a response for URL u may carry
NextLinks(u) == IF u = UserUrl THEN {NoLink} ELSE {NoLink} \cup ((u + 1)..MaxPages)

\* what the server may answer to a GET of URL u at time t when it may still
\* list n records: a 2xx with a JSON body, a 2xx with an undecodable body,
\* an error status with its rate-limit headers, or no response at all
Responses(u, t, n) ==
    {Response(FALSE, 200, "absent", NoReset, TRUE, b, l, x) :
        b \in (IF u = UserUrl THEN {<<>>} ELSE PagesUpTo(n)),
        l \in (IF u = UserUrl THEN {Alice} ELSE {<<>>}),
        x \in NextLinks(u)}
    \cup {Response(FALSE, 200, "absent", NoReset, FALSE, <<>>, <<>>, NoLink)}
    \cup {Response(FALSE, 403, r, h, FALSE, <<>>, <<>>, NoLink) :
        r \in {"absent", "0", "1"}, h \in ResetHeaders(t)}
    \cup {Response(FALSE, 429, r, NoReset, FALSE, <<>>, <<>>, NoLink) :
        r \in {"absent", "0"}}
    \cup {Response(FALSE, s, "absent", NoReset, FALSE, <<>>, <<>>, NoLink) :
        s \in {404, 500}}
    \cup {Response(TRUE, 0, "absent", NoReset, FALSE, <<>>, <<>>, NoLink)}

\* refs/heads of a repository: pairs <<branch, commit>>, one per branch;
\* commit c is an ancestor of commit d iff c <= d
Upstream == {<<"main", 2>>}

\* the branches a remote may have
RemoteHeads == {Upstream, {<<"main", 2>>, <<"dev", 1>>}}

\* the refs/heads an existing local bare repository may hold before a run:
\* none, behind the remote, ahead of it with a branch the remote has not
LocalHeads == {{}, {<<"main", 1>>}, {<<"main", 3>>, <<"old", 1>>}}

\* the path components of the clone URLs the server may list
UrlPaths == {r.clone_url.path : r \in Records}

(***************************************************************************)
(* State.                                                                  *)
(***************************************************************************)
VARIABLES
    owners,     \* main: config.get("owners")
    now,        \* the last value int(time.time()) returned
    slept,      \* the argument of the last time.sleep call
    pc,         \* main: the statement it is at
    err,        \* main: the exception that ended the run, "" if none
    user,       \* main: the identity document, login <<>> before it is set
    gen,        \* the get_json generator main is iterating
    page,       \* main: the listing page being iterated
    idx,        \* main: position of the current record in page
    dirs,       \* the directories that exist under and including Root
    gitlog,     \* the git processes run so far, in order
    mirrors,    \* the calls of mirror so far, in order, with their arguments
    bare,       \* the bare repositories on disk: their path and refs/heads
    remote,     \* the branches of the repository behind each clone URL
    checked,    \* the values check_name has returned in this run
    reqs,       \* the URLs requested by the current get_json call, in order
    last,       \* the response to the last request of the current call
    served,     \* the 2xx responses with a JSON body the current call got
    emitted,    \* the documents the current call has yielded, in order
    arg,        \* SpecName: the name handed to check_name
    result      \* SpecName: what check_name did with it

vars == <<owners, now, slept, pc, err, user, gen, page, idx, dirs, gitlog,
          mirrors, bare, remote, checked, reqs, last, served, emitted, arg,
          result>>

mainVars == <<owners, pc, err, user, page, idx>>
fsVars == <<dirs, gitlog, mirrors, bare, remote>>
httpVars == <<now, slept, gen, reqs, last, served, emitted>>
nameVars == <<arg, result>>

\* the values int(time.time()) may return; the clock belongs to the
\* environment and every reading is a choice from this set
Times == {20}

\* a generator object created by get_json(url, session): nothing has run
\* yet; arg is the URL of the call, url the local variable the loop updates
NewGen(url) == [arg |-> url, url |-> url, st |-> "run", links |-> NoLink]

\* no request has been made yet
NoResponse == Response(TRUE, 0, "absent", NoReset, FALSE, <<>>, <<>>, NoLink)

NotCalled == [raised |-> FALSE, value |-> <<"?">>]

\* main up to line 191: the configuration is loaded, the destination root
\* exists, the session is open; line 192 is about to call get_json
Init ==
    /\ owners \in OwnersConfigs
    /\ now \in Times
    /\ slept = 0
    /\ pc = "user"
    /\ err = ""
    /\ user = [login |-> <<>>]
    /\ gen = NewGen(UserUrl)
    /\ page = <<>>
    /\ idx = 0
    /\ dirs = {Root}
    /\ gitlog = <<>>
    /\ mirrors = <<>>
    /\ bare = {}
    /\ remote = [u \in UrlPaths |-> Upstream]
    /\ checked = {}
    /\ reqs = <<>>
    /\ last = NoResponse
    /\ served = <<>>
    /\ emitted = <<>>
    /\ arg = <<>>
    /\ result = NotCalled

(***************************************************************************)
(* get_json.                                                               *)
(***************************************************************************)
\* response.raise_for_status() raises HTTPError for 4xx and 5xx
RaisesHTTPError(resp) == 400 <= resp.status /\ resp.status < 600

\* lines 40-44: the rate-limit test
IsRateLimit(resp) ==
    /\ resp.status = 403
    /\ resp.remaining # "absent"
    /\ resp.remaining = "0"

\* a variant that knows 404 only
IsClientErrorOnly404(status_code) == status_code = 404

\* a variant that takes every error status for a client error
IsClientErrorUpTo600(status_code) == 400 <= status_code /\ status_code < 600

\* line 50
IsClientError(status_code) == 400 <= status_code /\ status_code < 500

\* line 46
wait_seconds(reset_time, t) == reset_time - t + RateLimitBuffer

\* lines 45-48: the exception the rate-limit branch raises, "" if none:
\* KeyError for a missing header, ValueError from int() or from time.sleep
RateLimitRaises(resp, t) ==
    IF ~resp.reset.present THEN "KeyError: 'x-ratelimit-reset'"
    ELSE IF ~resp.reset.numeric THEN "ValueError: invalid literal for int()"
    ELSE IF wait_seconds(resp.reset.val, t) < 0
         THEN "ValueError: sleep length must be non-negative"
    ELSE ""

\* the decoded JSON document of a response
Doc(resp) == [body |-> resp.body, login |-> resp.login]

RECURSIVE Flatten(_)
Flatten(docs) ==
    IF docs = <<>> THEN <<>> ELSE docs[1].body \o Flatten(Tail(docs))

\* records the server may still list
RecordsLeft == MaxRecords - Len(Flatten(emitted))

\* main is inside next() of the generator and the generator is at line 29
Requesting ==
    /\ pc \in {"user", "repos"}
    /\ gen.st = "run"
    /\ Len(reqs) < MaxReq

\* line 29: session.get(url, timeout=10)
Request(resp) ==
    /\ reqs' = Append(reqs, gen.url)
    /\ last' = resp

\* the generator returns: StopIteration ends next() at line 192, and ends
\* the for loop of line 193
GenReturns ==
    /\ gen' = [gen EXCEPT !.st = "end"]
    /\ pc' = IF pc = "user" THEN "raised" ELSE "done"
    /\ err' = IF pc = "user" THEN "StopIteration" ELSE err

\* lines 29-32: a 2xx response whose body decodes is yielded to main, which
\* binds it to user (line 192) or to page (line 193)
GetSuccess ==
    \E resp \in Responses(gen.url, now, RecordsLeft) :
        /\ Requesting
        /\ ~resp.transport /\ ~RaisesHTTPError(resp) /\ resp.jsonOk
        /\ Request(resp)
        /\ served' = Append(served, resp)
        /\ emitted' = Append(emitted, Doc(resp))
        /\ gen' = [gen EXCEPT !.st = "yield", !.links = resp.next]
        /\ IF pc = "user"
           THEN /\ user' = [login |-> resp.login]
                /\ pc' = "got_user"
                /\ UNCHANGED <<page, idx>>
           ELSE /\ page' = resp.body
                /\ idx' = 1
                /\ pc' = IF resp.body = <<>> THEN "repos" ELSE "record"
                /\ UNCHANGED user
        /\ UNCHANGED <<owners, err, now, slept, fsVars, nameVars, checked>>

\* a variant that retries the same URL after a transport failure
GetRequestExceptionRetries ==
    \E resp \in Responses(gen.url, now, RecordsLeft) :
        /\ Requesting
        /\ \/ resp.transport
           \/ ~resp.transport /\ ~RaisesHTTPError(resp) /\ ~resp.jsonOk
        /\ Request(resp)
        /\ UNCHANGED <<owners, pc, err, gen, user, page, idx, now, slept, served,
                       emitted, fsVars, nameVars, checked>>

\* lines 57-59: session.get raised (connection error, timeout) or
\* response.json() raised JSONDecodeError, a RequestException: break
GetRequestException ==
    \E resp \in Responses(gen.url, now, RecordsLeft) :
        /\ Requesting
        /\ \/ resp.transport
           \/ ~resp.transport /\ ~RaisesHTTPError(resp) /\ ~resp.jsonOk
        /\ Request(resp)
        /\ GenReturns
        /\ UNCHANGED <<owners, user, page, idx, now, slept, served, emitted,
                       fsVars, nameVars, checked>>

\* lines 40-49: rate limit exceeded; the sleep and the retry of the same
\* URL, or the exception that lines 45-48 raise inside the handler
GetRateLimit ==
    \E t \in Times : \E resp \in Responses(gen.url, t, RecordsLeft) :
        /\ Requesting
        /\ ~resp.transport /\ RaisesHTTPError(resp)
        /\ IsRateLimit(resp)
        /\ Request(resp)
        /\ now' = IF resp.reset.present /\ resp.reset.numeric THEN t ELSE now
        /\ IF RateLimitRaises(resp, t) # ""
           THEN /\ gen' = [gen EXCEPT !.st = "raised"]
                /\ pc' = "raised"
                /\ err' = RateLimitRaises(resp, t)
                /\ slept' = slept
           ELSE /\ slept' = wait_seconds(resp.reset.val, t)
                /\ UNCHANGED <<gen, pc, err>>
        /\ UNCHANGED <<owners, user, page, idx, served, emitted, fsVars,
                       nameVars, checked>>

\* lines 50-52: client error, break
GetClientError ==
    \E resp \in Responses(gen.url, now, RecordsLeft) :
        /\ Requesting
        /\ ~resp.transport /\ RaisesHTTPError(resp)
        /\ ~IsRateLimit(resp)
        /\ IsClientError(resp.status)
        /\ Request(resp)
        /\ GenReturns
        /\ UNCHANGED <<owners, user, page, idx, now, slept, served, emitted,
                       fsVars, nameVars, checked>>

\* lines 53-56: server error, sleep 5 seconds and retry the same URL
GetServerError ==
    \E resp \in Responses(gen.url, now, RecordsLeft) :
        /\ Requesting
        /\ ~resp.transport /\ RaisesHTTPError(resp)
        /\ ~IsRateLimit(resp)
        /\ ~IsClientError(resp.status)
        /\ Request(resp)
        /\ slept' = ServerErrorDelay
        /\ UNCHANGED <<gen, mainVars, now, served, emitted, fsVars, nameVars, checked>>

\* a variant that never leaves the URL it is at
NextUrlSame(g) == g.url

\* line 36: the URL of the next request
NextUrl(g) == g.links

\* lines 34-36: main asks for the next page, the generator resumes after the
\* yield: no next link ends the sequence, else the loop goes on with it
Resume ==
    /\ pc = "repos"
    /\ gen.st = "yield"
    /\ IF gen.links = NoLink
       THEN GenReturns
       ELSE /\ gen' = [gen EXCEPT !.url = NextUrl(gen), !.st = "run", !.links = NoLink]
            /\ UNCHANGED <<pc, err>>
    /\ UNCHANGED <<owners, user, page, idx, now, slept, reqs, last, served,
                   emitted, fsVars, nameVars, checked>>

\* line 193: main calls get_json for the listing; the identity generator is
\* dropped, suspended at its yield
StartListing ==
    /\ pc = "got_user"
    /\ pc' = "repos"
    /\ gen' = NewGen(ReposUrl)
    /\ reqs' = <<>>
    /\ last' = NoResponse
    /\ served' = <<>>
    /\ emitted' = <<>>
    /\ UNCHANGED <<owners, err, user, page, idx, now, slept, fsVars, nameVars, checked>>

(***************************************************************************)
(* main, lines 194-204, and mirror.                                        *)
(***************************************************************************)
\* os.path.join(path, segment): an absolute segment discards path
PathJoin(path, segment) ==
    IF segment # <<>> /\ segment[1] = "/" THEN <<segment>> ELSE Append(path, segment)

\* prepare_repo_url: the credentials are put in front of the netloc
prepare_repo_url(repo_url, username, token) ==
    [repo_url EXCEPT !.netloc = <<username, ":", token, "@">> \o repo_url.netloc]

\* a variant that never skips
SkipsNever(owner_list, owner) == FALSE

\* a variant that tests "owners is not None" instead of the truth of owners
SkipsConfigured(owner_list, owner) ==
    /\ owner_list.present
    /\ owner \notin owner_list.list

\* line 199: the owner test
Skips(owner_list, owner) ==
    /\ owner_list.present /\ owner_list.list # {}
    /\ owner \notin owner_list.list

\* a variant that walks the page from its end
repoReversed == page[Len(page) + 1 - idx]

\* the record main is at
repo == page[idx]

\* the end of the body of the inner for loop: the next record of the page,
\* or back to the outer for loop, which asks the generator for a page
NextRecord ==
    IF idx < Len(page)
    THEN idx' = idx + 1 /\ pc' = "record"
    ELSE idx' = idx /\ pc' = "repos"

\* lines 195-196: check_name raises ValueError for the name or the login
RecordInvalid ==
    /\ pc = "record"
    /\ \/ check_name(repo.name).raised
       \/ check_name(repo.owner.login).raised
    /\ pc' = "raised"
    /\ err' = "ValueError: Invalid name"
    /\ checked' = IF check_name(repo.name).raised
                  THEN checked
                  ELSE checked \cup {check_name(repo.name).value}
    /\ UNCHANGED <<owners, user, page, idx, httpVars, fsVars, nameVars>>

\* a variant that applies the owner test before the names are checked
RecordSkipUnchecked ==
    /\ pc = "record"
    /\ Skips(owners, repo.owner.login)
    /\ NextRecord
    /\ UNCHANGED <<owners, err, user, page, httpVars, fsVars, nameVars, checked>>

\* lines 195-200: both names pass and the owner test says continue
RecordSkip ==
    /\ pc = "record"
    /\ ~check_name(repo.name).raised
    /\ ~check_name(repo.owner.login).raised
    /\ Skips(owners, check_name(repo.owner.login).value)
    /\ NextRecord
    /\ checked' = checked \cup {check_name(repo.name).value,
                                check_name(repo.owner.login).value}
    /\ UNCHANGED <<owners, err, user, page, httpVars, fsVars, nameVars>>

\* lines 166 and 203: exist_ok=True
exist_ok == TRUE

\* os.makedirs(path, exist_ok=...): the exception it raises, "" if none.
\* An existing directory is an error only without exist_ok; fault is the
\* environment refusing to make a new one (permissions, disk)
MakedirsRaises(path, fault) ==
    IF path \in dirs
    THEN (IF exist_ok THEN "" ELSE "FileExistsError")
    ELSE (IF fault THEN "OSError" ELSE "")

\* a variant that starts mirror and goes on with the next record at once
RecordMirrorDetached ==
    /\ pc = "record"
    /\ ~check_name(repo.name).raised
    /\ ~check_name(repo.owner.login).raised
    /\ ~Skips(owners, check_name(repo.owner.login).value)
    /\ LET name == check_name(repo.name).value
           owner == check_name(repo.owner.login).value
           owner_path == PathJoin(Root, owner)
       IN /\ checked' = checked \cup {name, owner}
          /\ dirs' = dirs \cup {owner_path}
          /\ mirrors' = Append(mirrors,
                [repo_name |-> name, repo_url |-> repo.clone_url,
                 to_path |-> owner_path, username |-> user.login,
                 token |-> Token])
          /\ NextRecord /\ err' = err
    /\ UNCHANGED <<owners, user, page, httpVars, gitlog, bare, remote, nameVars>>

\* lines 195-204: both names pass, the owner directory is made and mirror
\* is called
RecordMirror ==
    \E fault \in BOOLEAN :
        /\ pc = "record"
        /\ ~check_name(repo.name).raised
        /\ ~check_name(repo.owner.login).raised
        /\ ~Skips(owners, check_name(repo.owner.login).value)
        /\ LET name == check_name(repo.name).value
               owner == check_name(repo.owner.login).value
               owner_path == PathJoin(Root, owner)
           IN /\ checked' = checked \cup {name, owner}
              /\ IF MakedirsRaises(owner_path, fault) # ""
                 THEN /\ pc' = "raised"
                      /\ err' = MakedirsRaises(owner_path, fault)
                      /\ UNCHANGED <<dirs, mirrors>>
                 ELSE /\ dirs' = dirs \cup {owner_path}
                      /\ mirrors' = Append(mirrors,
                            [repo_name |-> name, repo_url |-> repo.clone_url,
                             to_path |-> owner_path, username |-> user.login,
                             token |-> Token])
                      /\ pc' = "mirror_makedirs"
                      /\ err' = err
        /\ UNCHANGED <<owners, user, page, idx, httpVars, gitlog, bare, remote,
                       nameVars>>

\* the arguments of the running call of mirror
frame == mirrors[Len(mirrors)]

\* line 165
repo_path == PathJoin(frame.to_path, frame.repo_name)

\* lines 165-166: os.makedirs(repo_path, exist_ok=True)
MirrorMakedirs ==
    \E fault \in BOOLEAN :
        /\ pc = "mirror_makedirs"
        /\ IF MakedirsRaises(repo_path, fault) # ""
           THEN /\ pc' = "raised"
                /\ err' = MakedirsRaises(repo_path, fault)
                /\ dirs' = dirs
           ELSE /\ dirs' = dirs \cup {repo_path}
                /\ pc' = "mirror_init"
                /\ err' = err
        /\ UNCHANGED <<owners, user, page, idx, httpVars, gitlog, mirrors, bare,
                       remote, nameVars, checked>>

GitRun(cmd, cwd, url, exit) == [cmd |-> cmd, cwd |-> cwd, url |-> url, exit |-> exit]

NoUrl == [scheme |-> "", netloc |-> <<>>, path |-> <<>>]

\* subprocess.run(..., check=True): CalledProcessError on a non-zero exit
GitExits == {0, 1}

\* there is a bare repository at path
IsBare(path) == \E r \in bare : r.path = path

\* its refs/heads
HeadsAt(path) == UNION {r.heads : r \in {q \in bare : q.path = path}}

\* a variant that makes a fresh repository of an existing one
GitInitFresh(path) ==
    {r \in bare : r.path # path} \cup {[path |-> path, heads |-> {}]}

\* git init --bare in path: a new repository has no refs; an existing one
\* is reinitialized, which leaves its refs as they are
GitInit(path) ==
    IF IsBare(path) THEN bare ELSE bare \cup {[path |-> path, heads |-> {}]}

\* a variant of the command line of fetch_repo without --prune
FetchArgsNoPrune ==
    [force |-> TRUE, prune |-> FALSE, tags |-> TRUE,
     refspec |-> "refs/heads/*:refs/heads/*"]

\* lines 137-145: the command line of git fetch
FetchArgs ==
    [force |-> TRUE, prune |-> TRUE, tags |-> TRUE,
     refspec |-> "refs/heads/*:refs/heads/*"]

\* the refs/heads git fetch leaves, from local heads and the remote's
\* branches: with the refspec refs/heads/*:refs/heads/* every remote branch
\* updates the local branch of its name, unless the update is not a
\* fast-forward and --force is not given; --prune deletes the local
\* branches the remote does not have
GitFetchHeads(local, rem, args) ==
    LET Has(hs, b) == \E h \in hs : h[1] = b
        Updated(q) ==
            IF args.force \/ \A h \in local : h[1] = q[1] => h[2] <= q[2]
            THEN q
            ELSE CHOOSE h \in local : h[1] = q[1]
    IN {Updated(q) : q \in rem}
       \cup (IF args.prune THEN {} ELSE {h \in local : ~Has(rem, h[1])})

\* a variant of init_bare_repo that runs git without check=True
MirrorInitUnchecked ==
    \E exit \in GitExits :
        /\ pc = "mirror_init"
        /\ gitlog' = Append(gitlog, GitRun("init", repo_path, NoUrl, exit))
        /\ bare' = IF exit = 0 THEN GitInit(repo_path) ELSE bare
        /\ pc' = "mirror_fetch" /\ err' = err
        /\ UNCHANGED <<owners, user, page, idx, httpVars, dirs, mirrors, remote,
                       nameVars, checked>>

\* line 168, init_bare_repo: git init --bare --quiet in repo_path
MirrorInit ==
    \E exit \in GitExits :
        /\ pc = "mirror_init"
        /\ gitlog' = Append(gitlog, GitRun("init", repo_path, NoUrl, exit))
        /\ bare' = IF exit = 0 THEN GitInit(repo_path) ELSE bare
        /\ IF exit # 0
           THEN pc' = "raised" /\ err' = "CalledProcessError"
           ELSE pc' = "mirror_fetch" /\ err' = err
        /\ UNCHANGED <<owners, user, page, idx, httpVars, dirs, mirrors, remote,
                       nameVars, checked>>

\* git fetch in repo_path: exit 0 leaves the heads GitFetchHeads gives; git
\* cannot succeed where there is no repository
FetchEffect(exit) ==
    /\ exit = 0 => IsBare(repo_path)
    /\ gitlog' = Append(gitlog,
          GitRun("fetch", repo_path,
                 prepare_repo_url(frame.repo_url, frame.username, frame.token),
                 exit))
    /\ bare' = IF exit = 0
               THEN {r \in bare : r.path # repo_path}
                    \cup {[path |-> repo_path,
                           heads |-> GitFetchHeads(HeadsAt(repo_path),
                                                   remote[frame.repo_url.path],
                                                   FetchArgs)]}
               ELSE bare

\* a variant of fetch_repo that runs git without check=True
MirrorFetchUnchecked ==
    \E exit \in GitExits :
        /\ pc = "mirror_fetch"
        /\ FetchEffect(exit)
        /\ NextRecord /\ err' = err
        /\ UNCHANGED <<owners, user, page, httpVars, dirs, mirrors, remote,
                       nameVars, checked>>

\* lines 170-173, fetch_repo: git fetch of the authenticated URL in
\* repo_path, then mirror returns and the inner loop goes on
MirrorFetch ==
    \E exit \in GitExits :
        /\ pc = "mirror_fetch"
        /\ FetchEffect(exit)
        /\ IF exit # 0
           THEN pc' = "raised" /\ err' = "CalledProcessError" /\ idx' = idx
           ELSE NextRecord /\ err' = err
        /\ UNCHANGED <<owners, user, page, httpVars, dirs, mirrors, remote,
                       nameVars, checked>>

Next ==
    \/ GetSuccess
    \/ GetRequestException
    \/ GetRateLimit
    \/ GetClientError
    \/ GetServerError
    \/ Resume
    \/ StartListing
    \/ RecordInvalid
    \/ RecordSkip
    \/ RecordMirror
    \/ MirrorMakedirs
    \/ MirrorInit
    \/ MirrorFetch

Spec == Init /\ [][Next]_vars

(***************************************************************************)
(* check_name on its own: every name up to MaxLen is handed to it.         *)
(***************************************************************************)
InitName ==
    /\ owners = NoOwners
    /\ now \in Times
    /\ slept = 0
    /\ pc = "check_name"
    /\ err = ""
    /\ user = [login |-> <<>>]
    /\ gen = NewGen(UserUrl)
    /\ page = <<>>
    /\ idx = 0
    /\ dirs = {Root}
    /\ gitlog = <<>>
    /\ mirrors = <<>>
    /\ bare = {}
    /\ remote = [u \in UrlPaths |-> Upstream]
    /\ checked = {}
    /\ reqs = <<>>
    /\ last = NoResponse
    /\ served = <<>>
    /\ emitted = <<>>
    /\ arg \in Names
    /\ result = NotCalled

CheckName ==
    /\ pc = "check_name"
    /\ result' = check_name(arg)
    /\ pc' = IF check_name(arg).raised THEN "raised" ELSE "returned"
    /\ err' = IF check_name(arg).raised THEN "ValueError: Invalid name" ELSE err
    /\ UNCHANGED <<owners, user, page, idx, httpVars, fsVars, checked, arg>>

NextName == CheckName

SpecName == InitName /\ [][NextName]_vars

(***************************************************************************)
(* mirror over a disk that earlier runs have written: main has the first   *)
(* page of the listing in hand, the destination holds bare repositories    *)
(* in any state, the remotes have any of their branch sets.                *)
(***************************************************************************)
\* the records that pass check_name
ValidRecords ==
    {r \in Records : ~check_name(r.name).raised /\ ~check_name(r.owner.login).raised}

\* a page of 1..MaxRecords valid records; a record may be listed twice
MirrorPages == UNION {[1..k -> ValidRecords] : k \in 1..MaxRecords}

\* what earlier runs may have left under Root: for each repository nothing,
\* or a bare repository with some refs/heads
Disks ==
    {d \in SUBSET [path : {PathJoin(PathJoin(Root, r.owner.login), r.name) :
                              r \in ValidRecords},
                   heads : LocalHeads] :
        \A x, y \in d : x.path = y.path => x = y}

\* the branches behind the clone URLs
Remotes ==
    {f \in [UrlPaths -> RemoteHeads] :
        \A u \in UrlPaths \ {r.clone_url.path : r \in ValidRecords} :
            f[u] = Upstream}

\* the response that carried page b, the only page of the listing
PageResponse(b) == Response(FALSE, 200, "absent", NoReset, TRUE, b, <<>>, NoLink)

InitMirror ==
    /\ owners = NoOwners
    /\ now \in Times
    /\ slept = 0
    /\ pc = "record"
    /\ err = ""
    /\ user = [login |-> Alice]
    /\ gen = [NewGen(ReposUrl) EXCEPT !.st = "yield"]
    /\ page \in MirrorPages
    /\ idx = 1
    /\ bare \in Disks
    /\ dirs = {Root} \cup {r.path : r \in bare}
                     \cup {SubSeq(r.path, 1, 2) : r \in bare}
    /\ gitlog = <<>>
    /\ mirrors = <<>>
    /\ remote \in Remotes
    /\ checked = {}
    /\ reqs = <<ReposUrl>>
    /\ last = PageResponse(page)
    /\ served = <<PageResponse(page)>>
    /\ emitted = <<Doc(PageResponse(page))>>
    /\ arg = <<>>
    /\ result = NotCalled

NextMirror ==
    \/ RecordMirror
    \/ MirrorMakedirs
    \/ MirrorInit
    \/ MirrorFetch
    \/ Resume

SpecMirror == InitMirror /\ [][NextMirror]_vars

(***************************************************************************)
(* Properties.                                                             *)
(***************************************************************************)
\* the documents of the decodable 2xx responses of the current call
ServedDocs == [i \in 1..Len(served) |-> [body |-> served[i].body, login |-> served[i].login]]

\* every request of the current call was answered by a decodable 2xx
AllOk == Len(reqs) = Len(served)

\* the last response of the current call is an HTTP response with a status
\* in [400,500) that is not a 403 with X-RateLimit-Remaining "0"
LastIsClientError ==
    /\ Len(reqs) > 0
    /\ ~last.transport
    /\ 400 <= last.status /\ last.status < 500
    /\ ~(last.status = 403 /\ last.remaining = "0")

\* the last response of the current call is a 403 with X-RateLimit-Remaining
\* "0" and a numeric X-RateLimit-Reset
LastIsRateLimit ==
    /\ Len(reqs) > 0
    /\ ~last.transport
    /\ last.status = 403 /\ last.remaining = "0"
    /\ last.reset.present /\ last.reset.numeric

\* C1: as long as every response of a call is a decodable 2xx, the pages
\* emitted are the documents of the responses, one per response and in
\* order, the first request targets the URL get_json was called with, each
\* later request targets the next link of the response before it, and the
\* generator has ended only if the last response carried no next link.
ChainEmitted ==
    AllOk =>
        /\ emitted = ServedDocs
        /\ Len(reqs) > 0 =>
              reqs[1] = gen.arg
        /\ \A i \in 1..(Len(reqs) - 1) :
              served[i].next # NoLink /\ reqs[i + 1] = served[i].next
        /\ (gen.st = "run" /\ Len(reqs) > 0) =>
              (served[Len(served)].next # NoLink
               /\ gen.url = served[Len(served)].next)
        /\ gen.st = "end" =>
              (Len(reqs) > 0 /\ served[Len(served)].next = NoLink)

\* a listing of two pages fetched without a fault, to its end
ChainEmittedWitness ==
    /\ pc = "done" /\ gen.st = "end" /\ AllOk
    /\ Len(reqs) = 2 /\ Len(emitted) = 2 /\ emitted[1].body # <<>>

\* C2: after a 403 with X-RateLimit-Remaining "0" get_json has slept for
\* X-RateLimit-Reset - now + 10 seconds and is about to request the same
\* URL again, and no page has been emitted, lost or duplicated.
RateLimitPauseRetries ==
    LastIsRateLimit =>
        /\ gen.st = "run"
        /\ gen.url = reqs[Len(reqs)]
        /\ slept = last.reset.val - now + 10
        /\ emitted = ServedDocs

\* C3: a step that receives a client error ends the generator without an
\* exception and leaves the emitted pages as they were, which are the
\* documents of the successful responses before it, and no step after it
\* issues a request.
ClientErrorEnds ==
    [][ /\ (LastIsClientError' /\ reqs' # reqs) =>
              (gen'.st = "end" /\ emitted' = emitted /\ emitted' = ServedDocs')
        /\ LastIsClientError => reqs' = reqs ]_vars

\* the second page of the listing answers 403 without rate-limit headers
\* after the first page was emitted
ClientErrorEndsWitness ==
    /\ pc = "done" /\ gen.st = "end" /\ LastIsClientError
    /\ last.status = 403 /\ last.remaining = "absent"
    /\ Len(reqs) = 2 /\ Len(emitted) = 1

\* C4: get_json never raises.
GetJsonNeverRaises == gen.st # "raised"

\* C5: a fetch that ends early because of a 4xx response or a transport
\* failure does not end the run with an error.
FetchFaultsStayInFetcher ==
    (/\ gen.st = "end"
     /\ Len(reqs) > 0
     /\ \/ last.transport
        \/ 400 <= last.status /\ last.status < 500)
    => pc # "raised"

\* the records listed so far in this run
Listed == Flatten(emitted)

\* <directory>/<owner>/<name>
Target(r) == Root \o <<r.owner.login, r.name>>

\* the listed records whose owner is in the allowlist
AllowedListed == SelectSeq(Listed, LAMBDA r : r.owner.login \in owners.list)

MirrorTargets == [i \in 1..Len(mirrors) |-> mirrors[i].to_path \o <<mirrors[i].repo_name>>]

Range(f) == {f[i] : i \in DOMAIN f}

\* C6: with a non-empty allowlist, every directory made and every git
\* process run is for a listed repository whose owner is in the allowlist,
\* at <directory>/<owner>/<name>, and when the run completes mirror has been
\* called, and git init and git fetch run, for exactly those repositories.
MirrorsExactlyAllowed ==
    (owners.present /\ owners.list # {}) =>
        /\ \A d \in dirs \ {Root} :
              \E r \in Range(AllowedListed) :
                  d = Root \o <<r.owner.login>> \/ d = Target(r)
        /\ \A i \in 1..Len(gitlog) :
              \E r \in Range(AllowedListed) : gitlog[i].cwd = Target(r)
        /\ pc = "done" =>
              /\ MirrorTargets = [i \in 1..Len(AllowedListed) |-> Target(AllowedListed[i])]
              /\ Range(MirrorTargets) \subseteq dirs
              /\ [i \in 1..Len(gitlog) |-> <<gitlog[i].cmd, gitlog[i].cwd>>]
                    = [i \in 1..(2 * Len(MirrorTargets)) |->
                          <<IF i % 2 = 1 THEN "init" ELSE "fetch",
                            MirrorTargets[(i + 1) \div 2]>>]

\* a completed run with the allowlist [alice] over a listing of a repository
\* of bob followed by one of alice
MirrorsExactlyAllowedWitness ==
    /\ pc = "done"
    /\ owners.present /\ owners.list = {Alice}
    /\ Len(Listed) = 2
    /\ Listed[1].owner.login = Bob /\ Listed[2].owner.login = Alice
    /\ Len(mirrors) = 1

\* C7 as stated: whenever the owners key is present, mirror is called only
\* for owners in the list.
ConfiguredOwnersSkip ==
    owners.present =>
        \A i \in 1..Len(mirrors) :
            \E o \in owners.list : mirrors[i].to_path = Root \o <<o>>

\* C7 as amended: with a non-empty allowlist mirror is called only for
\* owners in the list; with no allowlist or an empty one, a completed run
\* has mirrored every listed repository.
NonEmptyOwnersSkip ==
    /\ (owners.present /\ owners.list # {}) =>
          \A i \in 1..Len(mirrors) :
              \E o \in owners.list : mirrors[i].to_path = Root \o <<o>>
    /\ (pc = "done" /\ (~owners.present \/ owners.list = {})) =>
          MirrorTargets = [i \in 1..Len(Listed) |-> Target(Listed[i])]

\* a completed run with "owners": [] that mirrored a repository of bob
NonEmptyOwnersSkipWitness ==
    /\ pc = "done"
    /\ owners.present /\ owners.list = {}
    /\ Len(mirrors) = 2
    /\ mirrors[2].to_path = Root \o <<Bob>>

\* one leading word character followed by word characters, dots or hyphens
SafeName(name) ==
    /\ Len(name) >= 1
    /\ name[1] \in WordChars
    /\ \A i \in 2..Len(name) : name[i] \in TailChars

\* C8: check_name returns its argument unchanged exactly when the whole name
\* is a safe name, and raises otherwise.
CheckNameExact ==
    pc \in {"returned", "raised"} =>
        /\ ~result.raised <=> SafeName(arg)
        /\ ~result.raised => result.value = arg

\* C9: a step at a record whose name or owner login fails check_name ends
\* the run with the ValueError, whatever the allowlist says about its owner,
\* and makes no directory, runs no git process, calls no mirror and issues
\* no request; nothing happens after the run has ended so.
ValidationFatal ==
    [][ /\ (/\ pc = "record"
            /\ \/ check_name(repo.name).raised
               \/ check_name(repo.owner.login).raised)
           => /\ pc' = "raised"
              /\ err' = "ValueError: Invalid name"
              /\ dirs' = dirs /\ gitlog' = gitlog /\ mirrors' = mirrors
              /\ reqs' = reqs
        /\ ~(pc = "raised" /\ err = "ValueError: Invalid name") ]_vars

\* with the allowlist [alice], a repository of alice was mirrored and the
\* run then ended at a repository of bob with an unsafe name
ValidationFatalWitness ==
    /\ pc = "raised" /\ err = "ValueError: Invalid name"
    /\ owners.present /\ owners.list = {Alice}
    /\ idx = 2 /\ page[2].owner.login = Bob
    /\ Len(mirrors) = 1 /\ Len(gitlog) = 2

\* C10: a step in which git exits non-zero ends the run with the
\* CalledProcessError and calls no mirror, makes no directory and issues no
\* request; nothing happens after the run has ended so.
MirrorFailureFatal ==
    [][ /\ (gitlog' # gitlog /\ gitlog'[Len(gitlog')].exit # 0)
           => /\ pc' = "raised"
              /\ err' = "CalledProcessError"
              /\ dirs' = dirs /\ mirrors' = mirrors /\ reqs' = reqs
        /\ ~(pc = "raised" /\ err = "CalledProcessError") ]_vars

\* git fetch failed for the first record of a page that has a second record
\* and a next link
MirrorFailureFatalWitness ==
    /\ pc = "raised" /\ err = "CalledProcessError"
    /\ gitlog[Len(gitlog)].cmd = "fetch"
    /\ idx < Len(page)
    /\ gen.links # NoLink

\* the git process a step has run, when it has run one
Ran == gitlog'[Len(gitlog')]

\* the refs/heads of the repository at path on a disk
HeadsIn(disk, path) == UNION {r.heads : r \in {q \in disk : q.path = path}}

\* git fetch has exited 0 in path before
FetchedBefore(path) ==
    \E i \in 1..Len(gitlog) :
        gitlog[i].cmd = "fetch" /\ gitlog[i].cwd = path /\ gitlog[i].exit = 0

\* C11: whatever the repository directory held before, a git fetch that
\* exits 0 leaves in it exactly the branches of the remote; a mirror of a
\* repository that was mirrored before raises nothing when it makes the
\* directory, its git init changes nothing, and its fetch leaves every
\* repository on disk as the first mirror left it.
MirrorIdempotent ==
    [][ /\ (gitlog' # gitlog /\ Ran.cmd = "fetch" /\ Ran.exit = 0) =>
              /\ HeadsIn(bare', Ran.cwd) = remote[frame.repo_url.path]
              /\ FetchedBefore(Ran.cwd) => bare' = bare
        /\ (pc = "mirror_makedirs" /\ repo_path \in dirs) =>
              (pc' = "mirror_init" /\ dirs' = dirs)
        /\ (gitlog' # gitlog /\ Ran.cmd = "init" /\ IsBare(Ran.cwd)) =>
              bare' = bare ]_vars

\* a repository listed twice was mirrored twice over a disk that held it
\* already, and the remote has two branches
MirrorIdempotentWitness ==
    /\ pc = "done" /\ Len(gitlog) = 4
    /\ gitlog[2].cwd = gitlog[4].cwd
    /\ HeadsAt(gitlog[4].cwd) = {<<"main", 2>>, <<"dev", 1>>}
    /\ \E r \in bare : r.path # gitlog[4].cwd /\ r.heads = {<<"main", 3>>, <<"old", 1>>}

\* the last response of the current call is an HTTP error status outside
\* [400,500)
LastIsServerError ==
    /\ Len(reqs) > 0
    /\ ~last.transport
    /\ last.status >= 400
    /\ ~(400 <= last.status /\ last.status < 500)

\* C12: a step that receives an error status outside [400,500) sleeps 5
\* seconds, leaves the generator running at the same URL, emits nothing
\* and does not end the sequence; the next request targets that URL again,
\* and a success after such retries emits its page once.
ServerErrorRetries ==
    [][ /\ (LastIsServerError' /\ reqs' # reqs) =>
              /\ slept' = ServerErrorDelay
              /\ gen' = gen /\ gen.st = "run"
              /\ emitted' = emitted /\ served' = served
              /\ pc' = pc /\ err' = err
        /\ (LastIsServerError /\ reqs' # reqs) =>
              /\ reqs'[Len(reqs')] = reqs[Len(reqs)]
              /\ Len(emitted') <= Len(emitted) + 1
              /\ emitted' = ServedDocs' ]_vars

\* the first page of the listing answered 500 twice and then a page
ServerErrorRetriesWitness ==
    /\ pc = "record" /\ Len(reqs) = 3
    /\ reqs[1] = reqs[3] /\ reqs[2] = reqs[3]
    /\ slept = ServerErrorDelay
    /\ ~last.transport /\ last.status = 200
    /\ Len(emitted) = 1 /\ emitted = ServedDocs

\* the last request of the current call got no response
LastIsTransportFailure == Len(reqs) > 0 /\ last.transport

\* C13: a step in which the request fails at transport level ends the
\* generator without an exception and leaves the emitted pages as they
\* were, which are the documents of the successful responses before it;
\* no step after it issues a request.
TransportFailureEnds ==
    [][ /\ (LastIsTransportFailure' /\ reqs' # reqs) =>
              /\ gen'.st = "end"
              /\ emitted' = emitted /\ emitted' = ServedDocs'
        /\ LastIsTransportFailure => reqs' = reqs ]_vars

\* the request for the second page of the listing failed after the first
\* page was emitted
TransportFailureEndsWitness ==
    /\ pc = "done" /\ gen.st = "end"
    /\ last.transport
    /\ Len(reqs) = 2 /\ Len(emitted) = 1

\* C14: every git fetch that has run follows, in the directory mirror made,
\* a git init of that directory that exited 0; no git process runs after
\* one that failed; and whenever main is outside mirror, every call of
\* mirror has run its git init and its git fetch and both exited 0.
MirrorStepsOrdered ==
    /\ \A i \in 1..Len(gitlog) :
          /\ gitlog[i].cwd \in dirs
          /\ i < Len(gitlog) => gitlog[i].exit = 0
          /\ gitlog[i].cmd = "fetch" =>
                /\ i > 1
                /\ gitlog[i - 1].cmd = "init"
                /\ gitlog[i - 1].cwd = gitlog[i].cwd
                /\ gitlog[i - 1].exit = 0
          /\ gitlog[i].cmd = "init" =>
                (i > 1 => gitlog[i - 1].cmd = "fetch")
    /\ pc \in {"record", "repos", "done"} =>
          /\ Len(gitlog) = 2 * Len(mirrors)
          /\ \A i \in 1..Len(mirrors) :
                /\ gitlog[2 * i - 1] = GitRun("init", MirrorTargets[i], NoUrl, 0)
                /\ gitlog[2 * i].cmd = "fetch"
                /\ gitlog[2 * i].cwd = MirrorTargets[i]
                /\ gitlog[2 * i].exit = 0
    /\ pc = "mirror_makedirs" => Len(gitlog) = 2 * Len(mirrors) - 2
    /\ pc = "mirror_init" =>
          (Len(gitlog) = 2 * Len(mirrors) - 2 /\ repo_path \in dirs)
    /\ pc = "mirror_fetch" =>
          /\ Len(gitlog) = 2 * Len(mirrors) - 1
          /\ gitlog[Len(gitlog)] = GitRun("init", repo_path, NoUrl, 0)

\* the second call of mirror could not make its directory: no git process
\* has run for it
MirrorStepsOrderedWitness ==
    /\ pc = "raised" /\ err = "OSError"
    /\ Len(mirrors) = 2 /\ Len(gitlog) = 2
    /\ MirrorTargets[2] \notin dirs

\* C15 as stated: git init runs only in a directory that holds no bare
\* repository yet.
InitOnlyIfAbsent ==
    [][ (gitlog' # gitlog /\ Ran.cmd = "init") => ~IsBare(Ran.cwd) ]_vars

\* C15 as amended: every call of mirror runs git init --bare in repo_path
\* once its directory is there, also when repo_path holds a bare repository
\* already, and on such a repository a git init that exits 0 changes nothing.
InitAlways ==
    [][ /\ pc = "mirror_init" =>
              (gitlog' # gitlog /\ Ran.cmd = "init" /\ Ran.cwd = repo_path)
        /\ (gitlog' # gitlog /\ Ran.cmd = "init") =>
              /\ (IsBare(Ran.cwd) /\ Ran.exit = 0) => bare' = bare
              /\ (~IsBare(Ran.cwd) /\ Ran.exit = 0) =>
                    bare' = bare \cup {[path |-> repo_path, heads |-> {}]} ]_vars

\* git init has run a second time in a directory the first mirror of the
\* same repository had filled
InitAlwaysWitness ==
    /\ Len(gitlog) = 3
    /\ gitlog[3].cmd = "init" /\ gitlog[3].exit = 0
    /\ gitlog[3].cwd = gitlog[1].cwd
    /\ HeadsAt(gitlog[3].cwd) = Upstream

\* the text of a clone URL
UrlString(url) ==
    <<"h", "t", "t", "p", "s", ":", "/", "/">> \o url.netloc \o <<"/">>
        \o url.path[1] \o <<"/">> \o url.path[2]

\* C16: the repository name, the owner login, the clone URL and the
\* identity login of every call of mirror have passed check_name.
AllFieldsChecked ==
    \A i \in 1..Len(mirrors) :
        /\ mirrors[i].repo_name \in checked
        /\ mirrors[i].to_path[Len(mirrors[i].to_path)] \in checked
        /\ mirrors[i].username \in checked
        /\ UrlString(mirrors[i].repo_url) \in checked

\* the calls of mirror that have returned
Finished ==
    {i \in 1..Len(mirrors) :
        /\ 2 * i <= Len(gitlog)
        /\ gitlog[2 * i].cmd = "fetch" /\ gitlog[2 * i].exit = 0}

\* the calls of mirror that are in progress
InProgress ==
    IF pc \in {"mirror_makedirs", "mirror_init", "mirror_fetch"}
    THEN {Len(mirrors)}
    ELSE {}

\* C17: every call of mirror but the last has returned before the next is
\* made, so at most one is in progress, and no git process runs in a
\* directory between the git init and the git fetch of another call.
MirrorsSequential ==
    /\ \A i \in 1..(Len(mirrors) - 1) : i \in Finished
    /\ Cardinality((1..Len(mirrors)) \ Finished) <= 1
    /\ pc \in {"record", "repos", "done", "user", "got_user"} =>
          Finished = 1..Len(mirrors)
    /\ InProgress \cap Finished = {}
    /\ \A i \in 1..Len(gitlog) :
          gitlog[i].cwd = MirrorTargets[(i + 1) \div 2]

\* a repository listed twice has been mirrored twice, one call after the
\* other
MirrorsSequentialWitness ==
    /\ pc = "done" /\ Len(mirrors) = 2
    /\ MirrorTargets[1] = MirrorTargets[2]
    /\ Finished = {1, 2}

\* C18: after a 5xx or a 403 with X-RateLimit-Remaining "0" get_json has
\* not given up: the generator is still running.
RetryNeverGivesUp ==
    (/\ Len(reqs) > 0
     /\ ~last.transport
     /\ \/ last.status >= 500
        \/ last.status = 403 /\ last.remaining = "0")
    => gen.st = "run"

\* the listed records main does not skip
Kept(records) == SelectSeq(records, LAMBDA r : ~Skips(owners, r.owner.login))

\* how many of the listed records main has mirrored or skipped, the one
\* mirror is running for included
Handled ==
    IF pc \in {"mirror_makedirs", "mirror_init", "mirror_fetch"}
    THEN Len(Listed) - Len(page) + idx
    ELSE IF pc = "record" THEN Len(Listed) - Len(page) + idx - 1
    ELSE Len(Listed)

\* C19: mirror has been called for the records that are not skipped, in
\* the order of the listing, up to the record main is at; a request for a
\* page of the listing is made only when every record listed so far was
\* skipped or mirrored with git fetch exiting 0; mirror is called only after
\* the identity document has arrived, its login does not change and is the
\* username of every call of mirror and of every git fetch.
LazyInOrder ==
    [][ /\ pc' # "raised" =>
              MirrorTargets' =
                  [i \in 1..Len(Kept(SubSeq(Listed', 1, Handled'))) |->
                      Target(Kept(SubSeq(Listed', 1, Handled'))[i])]
        /\ (reqs' # reqs /\ gen.arg = ReposUrl) =>
              /\ Len(mirrors) = Len(Kept(Listed))
              /\ Len(gitlog) = 2 * Len(mirrors)
              /\ \A i \in 1..Len(gitlog) : gitlog[i].exit = 0
        /\ mirrors' # mirrors =>
              (user.login # <<>> /\ pc \notin {"user", "got_user"})
        /\ user.login # <<>> => user' = user
        /\ \A i \in 1..Len(mirrors') : mirrors'[i].username = user'.login
        /\ \A i \in 1..Len(gitlog') :
              gitlog'[i].cmd = "fetch" =>
                  gitlog'[i].url.netloc[1] = user'.login ]_vars

\* a listing of two pages of one repository each, both mirrored
LazyInOrderWitness ==
    /\ pc = "done"
    /\ Len(emitted) = 2 /\ Len(emitted[1].body) = 1 /\ Len(emitted[2].body) = 1
    /\ Len(mirrors) = 2 /\ MirrorTargets[1] # MirrorTargets[2]
    /\ Len(gitlog) = 4

\* a single path segment that names neither the directory nor its parent
Segment(s) ==
    /\ s # <<>> /\ s # <<".">> /\ s # <<".", ".">>
    /\ \A i \in 1..Len(s) : s[i] # "/"

RECURSIVE PathString(_)
\* the segments of a path joined by "/"
PathString(path) ==
    IF path = <<>> THEN <<>>
    ELSE <<"/">> \o path[1] \o PathString(Tail(path))

\* C20: every directory that exists is the root, <root>/<owner> or
\* <root>/<owner>/<name>, and every git process has run in a directory
\* <root>/<owner>/<name>, with owner and name values check_name has
\* returned, each a single path segment other than "." and ".."; two calls
\* of mirror share a path only if they share the owner and the name.
PathsConfined ==
    /\ \A d \in dirs :
          \/ d = Root
          \/ \E o \in checked : Segment(o) /\ d = Root \o <<o>>
          \/ \E o, n \in checked : Segment(o) /\ Segment(n) /\ d = Root \o <<o, n>>
    /\ \A i \in 1..Len(gitlog) :
          \E o, n \in checked :
              Segment(o) /\ Segment(n) /\ gitlog[i].cwd = Root \o <<o, n>>
    /\ \A i, j \in 1..Len(mirrors) :
          PathString(MirrorTargets[i]) = PathString(MirrorTargets[j]) =>
              /\ mirrors[i].to_path = mirrors[j].to_path
              /\ mirrors[i].repo_name = mirrors[j].repo_name

\* repositories of two owners have been mirrored into their own directories
PathsConfinedWitness ==
    /\ pc = "done" /\ Len(mirrors) = 2
    /\ mirrors[1].to_path # mirrors[2].to_path
    /\ Cardinality(dirs) = 5 /\ Len(gitlog) = 4

====
